---- MODULE Spec2Model ----
(***************************************************************************)
(* Reflection and meta functions of cppfront (source/reflect.h):           *)
(* compiler_services (require, parse_statement), the reflective            *)
(* declaration views (add_member and the node's request methods), the      *)
(* interface meta function and parser::apply_type_meta_functions.          *)
(*                                                                         *)
(* A source fragment is a sequence of one-character strings.  A member of  *)
(* the type is a record holding what the declaration_node answers to the   *)
(* queries interface makes.  The diagnostic sink is the sequence errors of *)
(* (pos, msg) records.                                                     *)
(***************************************************************************)
EXTENDS Integers, Sequences, FiniteSets, TLC

\* ------------------------------------------------------------- bounds
MaxMembers == 2   \* members of the type before the meta functions run
MaxMeta    == 3   \* annotations attached to the type
MaxSrcLen  == 2   \* characters of a fragment handed to add_member
MaxCalls   == 2   \* calls a client makes to the services

VARIABLES
    members,          \* n: the type's member list (type-scope declarations)
    errors,           \* *errors: the shared diagnostic sink
    generated_lines,  \* generated_lines: one record of lines per parse_statement
    meta_functions,   \* n.meta_functions: the annotation names, in order
    next_meta,        \* position of the loop of apply_type_meta_functions
    interface_calls,  \* how many times interface( rtype ) was invoked
    call,             \* the most recent call and its inputs
    ret               \* what the most recent call returned

vars == <<members, errors, generated_lines, meta_functions, next_meta,
          interface_calls, call, ret>>

\* ------------------------------------------------------------- positions
DefaultPos == [lineno |-> 0, colno |-> 0]
TokenPos   == [lineno |-> 1, colno |-> 1]
Positions  == {DefaultPos, TokenPos}

\* ------------------------------------------------------------- messages
MsgDataObjects == "interfaces may not contain data objects"
MsgCopyOrMove  == "interfaces may not copy or move; consider a virtual clone() instead"
MsgBody        == "interface functions must not have a function body; remove the '=' initializer"
MsgPublic      == "interface functions must be public"
MsgDtor        == "could not add pure virtual destructor"
MsgUnrecognized == "(temporary alpha limitation) unrecognized meta function name - currently only unqualified 'interface' is supported"
MsgParse       == "parse error in generated source"
MsgClient      == "client requirement"

RECURSIVE CountMsg(_, _)
CountMsg(errs, msg) ==
    IF errs = << >> THEN 0
    ELSE (IF Head(errs).msg = msg THEN 1 ELSE 0) + CountMsg(Tail(errs), msg)

IsPrefix(s, t) == Len(s) <= Len(t) /\ SubSeq(t, 1, Len(s)) = s

\* ------------------------------------------------------------- members
FunctionShape(access, init, cm, dtor, accepts) ==
    [kind |-> "function", access |-> access, has_initializer |-> init,
     copy_or_move |-> cm, destructor |-> dtor, accepts_virtual |-> accepts,
     is_virtual |-> FALSE, virtual_requests |-> 0]

ObjectShape ==
    [kind |-> "object", access |-> "default", has_initializer |-> FALSE,
     copy_or_move |-> FALSE, destructor |-> FALSE, accepts_virtual |-> FALSE,
     is_virtual |-> FALSE, virtual_requests |-> 0]

TypeShape == [ObjectShape EXCEPT !.kind = "type"]

\* The declarations the primary parse can have put in the type.
MemberShapes ==
    {ObjectShape, TypeShape}
    \cup {FunctionShape(a, i, FALSE, FALSE, TRUE) :
              a \in {"default", "public", "private"}, i \in BOOLEAN}
    \cup {FunctionShape("public", i, FALSE, FALSE, FALSE) : i \in BOOLEAN}
    \cup {FunctionShape("public", FALSE, TRUE, FALSE, TRUE)}
    \cup {FunctionShape("public", FALSE, FALSE, TRUE, TRUE),
          FunctionShape("private", TRUE, FALSE, TRUE, TRUE)}

is_object(m)       == m.kind = "object"
is_function(m)     == m.kind = "function"
has_initializer(m) == m.has_initializer
is_copy_or_move(m) == m.copy_or_move
is_destructor(m)   == m.destructor
is_public(m)       == m.access = "public"

\* declaration_node::make_public: a default access becomes public; an access
\* the user wrote stays, and the request is refused unless it is public.
make_public(m) ==
    IF m.access \in {"default", "public"}
    THEN [node |-> [m EXCEPT !.access = "public"], ok |-> TRUE]
    ELSE [node |-> m, ok |-> FALSE]

\* declaration_node::make_function_virtual: the node accepts or refuses.
make_function_virtual(m) ==
    [node |-> [m EXCEPT !.virtual_requests = @ + 1,
                        !.is_virtual = @ \/ m.accepts_virtual],
     ok   |-> m.accepts_virtual]

\* ------------------------------------------------------------- require
\* require as it would be if it recorded the entry in front of the sink
require_Prepends(errs, b, msg, pos) ==
    IF ~b THEN <<[pos |-> pos, msg |-> msg]>> \o errs ELSE errs

require(errs, b, msg, pos) ==
    IF ~b THEN Append(errs, [pos |-> pos, msg |-> msg]) ELSE errs

\* ------------------------------------------------------------- parse_statement
NL == "\n"
npos == -1

\* std::string_view::find('\n'): 0-based index of the first line break
RECURSIVE FindFrom(_, _)
FindFrom(source, k) ==
    IF k > Len(source) THEN npos
    ELSE IF source[k] = NL THEN k - 1
    ELSE FindFrom(source, k + 1)

find(source) == FindFrom(source, 1)

substr(source, from, count) == SubSeq(source, from + 1, from + count)
remove_prefix(source, count) == SubSeq(source, count + 1, Len(source))

\* the while loop of parse_statement
RECURSIVE SplitLoop(_, _)
SplitLoop(source, lines) ==
    LET newline_pos == find(source) IN
    IF newline_pos # npos
    THEN SplitLoop(remove_prefix(source, newline_pos + 1),
                   Append(lines, substr(source, 0, newline_pos)))
    ELSE [source |-> source, lines |-> lines]

\* "First split this string into source_lines"
SplitLines(source) ==
    LET split == IF Len(source) > 1 /\ find(source) # npos
                 THEN SplitLoop(source, << >>)
                 ELSE [source |-> source, lines |-> << >>]
    IN  IF split.source # << >>
        THEN Append(split.lines, split.source)
        ELSE split.lines

NoNode == [kind |-> "none"]

\* "operator=: (virtual move this) = { }"
DtorSource ==
    <<"o","p","e","r","a","t","o","r","=",":"," ","(","v","i","r","t","u","a","l",
      " ","m","o","v","e"," ","t","h","i","s",")"," ","="," ","{"," ","}">>

\* The declaration the parser builds from DtorSource: a move-this operator=
\* with a body, written virtual, of default access.
DtorNode ==
    [kind |-> "function", access |-> "default", has_initializer |-> TRUE,
     copy_or_move |-> FALSE, destructor |-> TRUE, accepts_virtual |-> TRUE,
     is_virtual |-> TRUE, virtual_requests |-> 0]

\* What parser.parse_one_declaration can return for a fragment: no node when
\* the parse is rejected, the declaration otherwise.
ParseOutcomes(source) ==
    {NoNode} \cup (IF source = DtorSource THEN {DtorNode}
                   ELSE {FunctionShape("default", TRUE, FALSE, FALSE, TRUE)})

\* t is the state the services share: [members, errors, generated_lines].
\* parsed is what parse_one_declaration returns for the fragment.
parse_statement(t, source, parsed) ==
    [t |-> [t EXCEPT !.generated_lines = Append(@, SplitLines(source)),
                     !.errors = require(@, parsed # NoNode, MsgParse, TokenPos)],
     decl |-> parsed]

\* declaration_node::add_type_member: n is a type, the node is appended.
add_type_member(t, decl) ==
    [t |-> [t EXCEPT !.members = Append(@, decl)], ret |-> TRUE]

\* add_member as it would be if it reported success whatever the parse gave
add_member_AlwaysTrue(t, source, parsed) ==
    LET p == parse_statement(t, source, parsed) IN
    IF p.decl # NoNode
    THEN add_type_member(p.t, p.decl)
    ELSE [t |-> p.t, ret |-> TRUE]

add_member(t, source, parsed) ==
    LET p == parse_statement(t, source, parsed) IN
    IF p.decl # NoNode
    THEN add_type_member(p.t, p.decl)
    ELSE [t |-> p.t, ret |-> FALSE]

\* ------------------------------------------------------------- interface
\* the loop body as it would be if a failed requirement skipped the transform
InterfaceMember_ChecksBlock(m, errs) ==
    LET e1 == require(errs, ~is_object(m), MsgDataObjects, DefaultPos) IN
    IF is_function(m)
    THEN LET e2 == require(e1, ~is_copy_or_move(m), MsgCopyOrMove, DefaultPos)
             e3 == require(e2, ~has_initializer(m), MsgBody, DefaultPos)
             mp == make_public(m)
             e4 == require(e3, mp.ok, MsgPublic, DefaultPos)
             mv == IF e4 = e1 THEN make_function_virtual(mp.node)
                   ELSE [node |-> mp.node, ok |-> FALSE]
         IN  [node |-> mv.node, errors |-> e4, is_dtor |-> is_destructor(mv.node)]
    ELSE [node |-> m, errors |-> e1, is_dtor |-> FALSE]

\* the loop body as it would be if it tested is_public instead of asking
\* the node to become public
InterfaceMember_IsPublic(m, errs) ==
    LET e1 == require(errs, ~is_object(m), MsgDataObjects, DefaultPos) IN
    IF is_function(m)
    THEN LET e2 == require(e1, ~is_copy_or_move(m), MsgCopyOrMove, DefaultPos)
             e3 == require(e2, ~has_initializer(m), MsgBody, DefaultPos)
             e4 == require(e3, is_public(m), MsgPublic, DefaultPos)
             mv == make_function_virtual(m)
         IN  [node |-> mv.node, errors |-> e4, is_dtor |-> is_destructor(mv.node)]
    ELSE [node |-> m, errors |-> e1, is_dtor |-> FALSE]

\* the loop body as it would be if the object check sat inside the function branch
InterfaceMember_ObjectsPass(m, errs) ==
    IF is_function(m)
    THEN LET e1 == require(errs, ~is_object(m), MsgDataObjects, DefaultPos)
             e2 == require(e1, ~is_copy_or_move(m), MsgCopyOrMove, DefaultPos)
             e3 == require(e2, ~has_initializer(m), MsgBody, DefaultPos)
             mp == make_public(m)
             e4 == require(e3, mp.ok, MsgPublic, DefaultPos)
             mv == make_function_virtual(mp.node)
         IN  [node |-> mv.node, errors |-> e4, is_dtor |-> is_destructor(mv.node)]
    ELSE [node |-> m, errors |-> errs, is_dtor |-> FALSE]

\* the body of the loop over t.get_members(), for one member
InterfaceMember(m, errs) ==
    LET e1 == require(errs, ~is_object(m), MsgDataObjects, DefaultPos) IN
    IF is_function(m)
    THEN LET e2 == require(e1, ~is_copy_or_move(m), MsgCopyOrMove, DefaultPos)
             e3 == require(e2, ~has_initializer(m), MsgBody, DefaultPos)
             mp == make_public(m)
             e4 == require(e3, mp.ok, MsgPublic, DefaultPos)
             mv == make_function_virtual(mp.node)
         IN  [node |-> mv.node, errors |-> e4, is_dtor |-> is_destructor(mv.node)]
    ELSE [node |-> m, errors |-> e1, is_dtor |-> FALSE]

RECURSIVE InterfaceLoop(_, _, _)
InterfaceLoop(t, k, has_dtor) ==
    IF k > Len(t.members) THEN [t |-> t, has_dtor |-> has_dtor]
    ELSE LET r == InterfaceMember(t.members[k], t.errors) IN
         InterfaceLoop([t EXCEPT !.members[k] = r.node, !.errors = r.errors],
                       k + 1, has_dtor \/ r.is_dtor)

\* interface as it would be if it did not track has_dtor
interface_AlwaysSynthesizes(t, parsed) ==
    LET l == InterfaceLoop(t, 1, FALSE)
        a == add_member(l.t, DtorSource, parsed)
    IN  [a.t EXCEPT !.errors = require(@, a.ret, MsgDtor, DefaultPos)]

interface(t, parsed) ==
    LET l == InterfaceLoop(t, 1, FALSE) IN
    IF ~l.has_dtor
    THEN LET a == add_member(l.t, DtorSource, parsed) IN
         [a.t EXCEPT !.errors = require(@, a.ret, MsgDtor, DefaultPos)]
    ELSE l.t

\* ------------------------------------------------------------- state
State == [members |-> members, errors |-> errors, generated_lines |-> generated_lines]

SetState(t) ==
    /\ members' = t.members
    /\ errors' = t.errors
    /\ generated_lines' = t.generated_lines

RECURSIVE SeqsUpTo(_, _)
SeqsUpTo(S, n) ==
    IF n = 0 THEN {<< >>}
    ELSE LET shorter == SeqsUpTo(S, n - 1) IN
         shorter \cup {Append(s, x) : s \in {q \in shorter : Len(q) = n - 1}, x \in S}

MetaNames == {"interface", "cpp2::interface"}

NoCall == [op |-> "none"]

\* ------------------------------------------------------------- dispatcher
\* apply_type_meta_functions has built cs and rtype over n and enters its loop.
Init ==
    /\ members \in SeqsUpTo(MemberShapes, MaxMembers)
    /\ errors = << >>
    /\ generated_lines = << >>
    /\ meta_functions \in SeqsUpTo(MetaNames, MaxMeta)
    /\ next_meta = 1
    /\ interface_calls = 0
    /\ call = [op |-> "apply_type_meta_functions"]
    /\ ret = << >>

\* ret is << >> while the call runs and <<v>> once it has returned v
Returned(v) == ret = <<v>>

Running == ret = << >> /\ call.op = "apply_type_meta_functions"

\* the iteration as it would be if a failed synthesis aborted the dispatch
ApplyInterface_AbortsOnFailure ==
    /\ Running
    /\ next_meta <= Len(meta_functions)
    /\ meta_functions[next_meta] = "interface"
    /\ \E parsed \in ParseOutcomes(DtorSource) :
          LET t == interface(State, parsed) IN
          /\ SetState(t)
          /\ ret' = IF CountMsg(t.errors, MsgDtor) > CountMsg(errors, MsgDtor)
                    THEN <<FALSE>> ELSE ret
    /\ interface_calls' = interface_calls + 1
    /\ next_meta' = next_meta + 1
    /\ UNCHANGED <<meta_functions, call>>

\* one iteration: meta->to_string() == "interface"
ApplyInterface ==
    /\ Running
    /\ next_meta <= Len(meta_functions)
    /\ meta_functions[next_meta] = "interface"
    /\ \E parsed \in ParseOutcomes(DtorSource) : SetState(interface(State, parsed))
    /\ interface_calls' = interface_calls + 1
    /\ next_meta' = next_meta + 1
    /\ UNCHANGED <<meta_functions, call, ret>>

\* the iteration as it would be if an unknown name were skipped
ApplyUnrecognized_Continues ==
    /\ Running
    /\ next_meta <= Len(meta_functions)
    /\ meta_functions[next_meta] # "interface"
    /\ errors' = Append(errors, [pos |-> TokenPos, msg |-> MsgUnrecognized])
    /\ next_meta' = next_meta + 1
    /\ UNCHANGED <<members, generated_lines, meta_functions, interface_calls,
                   call, ret>>

\* one iteration: any other name
ApplyUnrecognized ==
    /\ Running
    /\ next_meta <= Len(meta_functions)
    /\ meta_functions[next_meta] # "interface"
    /\ errors' = Append(errors, [pos |-> TokenPos, msg |-> MsgUnrecognized])
    /\ ret' = <<FALSE>>
    /\ UNCHANGED <<members, generated_lines, meta_functions, next_meta,
                   interface_calls, call>>

\* the loop is over
ApplyReturn ==
    /\ Running
    /\ next_meta > Len(meta_functions)
    /\ ret' = <<TRUE>>
    /\ UNCHANGED <<members, errors, generated_lines, meta_functions, next_meta,
                   interface_calls, call>>

Next == ApplyInterface \/ ApplyUnrecognized \/ ApplyReturn

Spec == Init /\ [][Next]_vars

\* ------------------------------------------------------------- services
\* A client holding a type_declaration view calls the public services.
Chars == {"a", NL}

Sources == SeqsUpTo(Chars, MaxSrcLen) \cup {DtorSource}

InitServices ==
    /\ members \in {<< >>, <<ObjectShape>>}
    /\ errors = << >>
    /\ generated_lines = << >>
    /\ meta_functions = << >>
    /\ next_meta = 1
    /\ interface_calls = 0
    /\ call = NoCall
    /\ ret = << >>

RequireCall ==
    /\ Len(errors) < MaxCalls
    /\ \E b \in BOOLEAN, pos \in Positions :
          /\ errors' = require(errors, b, MsgClient, pos)
          /\ call' = [op |-> "require", b |-> b, msg |-> MsgClient, pos |-> pos]
    /\ ret' = << >>
    /\ UNCHANGED <<members, generated_lines, meta_functions, next_meta, interface_calls>>

AddMemberCall ==
    /\ Len(generated_lines) < MaxCalls
    /\ \E source \in Sources : \E parsed \in ParseOutcomes(source) :
          LET a == add_member(State, source, parsed) IN
          /\ SetState(a.t)
          /\ call' = [op |-> "add_member", source |-> source, decl |-> parsed]
          /\ ret' = <<a.ret>>
    /\ UNCHANGED <<meta_functions, next_meta, interface_calls>>

NextServices == RequireCall \/ AddMemberCall

SpecServices == InitServices /\ [][NextServices]_vars

\* ------------------------------------------------------------- properties
Min(S) == CHOOSE x \in S : \A y \in S : x <= y

Unknown == {i \in 1..Len(meta_functions) : meta_functions[i] # "interface"}
FirstUnknown == IF Unknown = {} THEN Len(meta_functions) + 1 ELSE Min(Unknown)
AllRecognized == Unknown = {}

\* a step in which interface( rtype ) ran
InterfaceStep == interface_calls' = interface_calls + 1
\* how many entries with this message the step appended
Added(msg) == CountMsg(errors', msg) - CountMsg(errors, msg)

Functions == {k \in 1..Len(members) : is_function(members[k])}
Objects   == {k \in 1..Len(members) : is_object(members[k])}
HasDtor   == \E k \in 1..Len(members) : is_function(members[k]) /\ is_destructor(members[k])

\* C1: the annotations are processed in declared order: interface has been
\* invoked once for each name before the loop position, the loop never passes
\* the first name that is not "interface", at that name exactly one
\* "unrecognized meta function name" error is recorded and the call returns
\* false with no later name processed; the call returns true exactly when every
\* name is "interface".
C1_DeclaredOrder ==
    /\ next_meta <= FirstUnknown
    /\ interface_calls = next_meta - 1
    /\ CountMsg(errors, MsgUnrecognized) = (IF Returned(FALSE) THEN 1 ELSE 0)
    /\ Returned(FALSE) => (~AllRecognized /\ next_meta = FirstUnknown)
    /\ Returned(TRUE) => (AllRecognized /\ interface_calls = Len(meta_functions))

C1_Witness ==
    /\ Returned(FALSE)
    /\ interface_calls >= 1
    /\ \E i \in 1..Len(meta_functions) : i > FirstUnknown /\ meta_functions[i] = "interface"

\* C2 as stated: in one application of interface every function member gets
\* exactly one make_function_virtual request, and a function member with a body
\* gets the "must not have a function body" diagnostic and ends up virtual.
C2_Original ==
    [][InterfaceStep =>
        \A k \in 1..Len(members) :
            /\ members'[k].virtual_requests = members[k].virtual_requests
                   + (IF is_function(members[k]) THEN 1 ELSE 0)
            /\ (is_function(members[k]) /\ has_initializer(members[k]))
                   => (Added(MsgBody) >= 1 /\ members'[k].is_virtual)]_vars

\* C2 as amended: in one application of interface every function member gets
\* exactly one make_function_virtual request whatever its checks gave, every
\* function member with a body gets its "must not have a function body"
\* diagnostic, and the member ends up virtual whenever its node accepts the
\* request (a node that refuses stays as it was).
C2_TransformNotBlocked ==
    [][InterfaceStep =>
        /\ Added(MsgBody) = Cardinality({k \in Functions : has_initializer(members[k])})
        /\ \A k \in 1..Len(members) :
            /\ members'[k].virtual_requests = members[k].virtual_requests
                   + (IF is_function(members[k]) THEN 1 ELSE 0)
            /\ (is_function(members[k]) /\ members[k].accepts_virtual)
                   => members'[k].is_virtual
            /\ ~(is_function(members[k]) /\ members[k].accepts_virtual)
                   => members'[k].is_virtual = members[k].is_virtual]_vars

C2_Witness ==
    /\ interface_calls = 1
    /\ \E k \in 2..Len(members) :
        /\ is_object(members[k-1])
        /\ is_function(members[k]) /\ has_initializer(members[k])
        /\ members[k].access = "private"
        /\ members[k].is_virtual /\ members[k].virtual_requests = 1
    /\ CountMsg(errors, MsgBody) >= 1
    /\ CountMsg(errors, MsgPublic) >= 1
    /\ CountMsg(errors, MsgDataObjects) >= 1

\* C3 as stated: an application of interface appends exactly one member when
\* no member was a destructor (and for a type without members records no
\* diagnostic), and leaves the member count alone when one was.
C3_Original ==
    [][InterfaceStep =>
        IF ~HasDtor
        THEN /\ Len(members') = Len(members) + 1
             /\ members = << >> => errors' = errors
        ELSE Len(members') = Len(members)]_vars

\* C3 as amended: when no member was a destructor, interface calls add_member
\* once with the destructor fragment; if that succeeds exactly one member, the
\* parsed destructor, is appended (for a type without members the result has one
\* member and no diagnostic), and if it fails no member is appended and "could
\* not add pure virtual destructor" is recorded; when a member was a destructor
\* the synthesis is skipped and the member count is unchanged.
C3_SynthesisWhenNoDestructor ==
    [][InterfaceStep =>
        IF ~HasDtor
        THEN /\ Len(generated_lines') = Len(generated_lines) + 1
             /\ IF Added(MsgDtor) = 0
                THEN /\ Len(members') = Len(members) + 1
                     /\ members'[Len(members')] = DtorNode
                     /\ members = << >> => errors' = errors
                ELSE /\ Len(members') = Len(members)
                     /\ Added(MsgDtor) = 1
        ELSE /\ Len(members') = Len(members)
             /\ generated_lines' = generated_lines
             /\ Added(MsgDtor) = 0]_vars

C3_Witness ==
    /\ interface_calls = 1
    /\ members = <<DtorNode>>
    /\ errors = << >>
    /\ Len(generated_lines) = 1

\* C4 as stated: a function member whose access is not public before the
\* application gets "interface functions must be public" appended to the sink.
C4_Original ==
    [][InterfaceStep =>
        \A k \in Functions : ~is_public(members[k]) => Added(MsgPublic) >= 1]_vars

\* C4 as amended: interface asks every function member to become public and
\* records "interface functions must be public" once for each member whose node
\* refuses, which are the members still not public afterwards; a function member
\* of default access is made public and gets no such diagnostic.
C4_PublicRequested ==
    [][InterfaceStep =>
        /\ Added(MsgPublic) = Cardinality({k \in Functions : ~is_public(members'[k])})
        /\ \A k \in Functions :
            /\ members[k].access = "default" => is_public(members'[k])
            /\ members[k].access # "default" => members'[k].access = members[k].access]_vars

C4_Witness ==
    /\ interface_calls = 1
    /\ CountMsg(errors, MsgPublic) = 1
    /\ \E k \in Functions : members[k].access = "private"
    /\ \E k \in Functions : is_public(members[k]) /\ ~is_destructor(members[k])

\* C5: once interface has been applied and did not fail to add its destructor,
\* applying it again appends no member and parses no fragment: the member count
\* after the second application is the count after the first.
C5_NoSecondDestructor ==
    [][(InterfaceStep /\ interface_calls >= 1 /\ CountMsg(errors, MsgDtor) = 0) =>
        /\ Len(members') = Len(members)
        /\ generated_lines' = generated_lines]_vars

C5_Witness ==
    /\ interface_calls = 2
    /\ CountMsg(errors, MsgDtor) = 0
    /\ Len(generated_lines) = 1
    /\ Len(members) >= 2
    /\ is_destructor(members[Len(members)])

\* what interface never changes of a member
SameDeclaration(m1, m2) ==
    /\ m1.kind = m2.kind
    /\ m1.has_initializer = m2.has_initializer
    /\ m1.copy_or_move = m2.copy_or_move
    /\ m1.destructor = m2.destructor

\* C6: an application of interface appends one "interfaces may not contain data
\* objects" diagnostic for each object member (so at least one when there is an
\* object member) and removes no member: every member is still at its place
\* afterwards, and the member count grows by at most the one synthesized
\* destructor.
C6_DataObjectsFlagged ==
    [][InterfaceStep =>
        /\ Added(MsgDataObjects) = Cardinality(Objects)
        /\ Len(members') \in {Len(members), Len(members) + 1}
        /\ \A k \in 1..Len(members) : SameDeclaration(members[k], members'[k])
        /\ Len(members') = Len(members) + 1 => members'[Len(members')] = DtorNode]_vars

C6_Witness ==
    /\ interface_calls = 1
    /\ Len(members) = 3
    /\ is_object(members[1]) /\ is_object(members[2])
    /\ members[3] = DtorNode
    /\ CountMsg(errors, MsgDataObjects) = 2

\* C9: when interface saw no destructor and add_member fails, the application
\* records exactly one "could not add pure virtual destructor", appends no
\* member, and the dispatch goes on with the next annotation; the call still
\* returns true exactly when every name is recognized.
C9_SynthesisFailure ==
    /\ [][(InterfaceStep /\ Added(MsgParse) > 0) =>
            /\ ~HasDtor
            /\ Added(MsgDtor) = 1
            /\ Len(members') = Len(members)
            /\ next_meta' = next_meta + 1
            /\ ret' = << >>]_vars
    /\ []((CountMsg(errors, MsgDtor) > 0 /\ ret # << >>)
            => (Returned(TRUE) <=> AllRecognized))

C9_Witness ==
    /\ Returned(TRUE)
    /\ interface_calls >= 2
    /\ CountMsg(errors, MsgDtor) >= 1

\* a step in which a client called add_member
AddMemberStep ==
    call'.op = "add_member" /\ Len(generated_lines') = Len(generated_lines) + 1

\* C7: add_member(source) returns true exactly when parse_statement(source)
\* yields a node, and then that node is the new last member and the earlier
\* members are as they were; when parse_statement yields none it returns false
\* and the member list is unchanged.
C7_AddMember ==
    [][AddMemberStep =>
        IF call'.decl # NoNode
        THEN ret' = <<TRUE>> /\ members' = Append(members, call'.decl)
        ELSE ret' = <<FALSE>> /\ members' = members]_vars

C7_Witness ==
    /\ call.op = "add_member"
    /\ call.decl # NoNode
    /\ ret = <<TRUE>>
    /\ Len(members) = 2
    /\ members[2] = call.decl

\* C8: require with a false condition appends exactly the entry (pos, msg) at
\* the end of the sink, with a true condition it leaves the sink as it was, it
\* returns no value and touches nothing else; no step of any service changes or
\* removes an earlier entry of the sink.
C8_RequireAppends ==
    [][/\ IsPrefix(errors, errors')
       /\ call'.op = "require" =>
            /\ errors' = (IF call'.b THEN errors
                          ELSE Append(errors, [pos |-> call'.pos, msg |-> call'.msg]))
            /\ ret' = << >>
            /\ UNCHANGED <<members, generated_lines>>]_vars

C8_Witness ==
    /\ call.op = "require"
    /\ ~call.b
    /\ Len(errors) >= 2
    /\ errors[Len(errors)] = [pos |-> call.pos, msg |-> call.msg]
    /\ errors[1] # errors[Len(errors)]

RECURSIVE Join(_)
Join(lines) ==
    IF lines = << >> THEN << >>
    ELSE IF Len(lines) = 1 THEN lines[1]
    ELSE lines[1] \o <<NL>> \o Join(Tail(lines))

\* C10: each parse_statement(source) call appends exactly one record after the
\* earlier records, which stay as they were; no line of the record holds a line
\* break, a non-empty fragment without a line break is stored as the single
\* line equal to it, and joining the lines with line breaks gives back the
\* fragment up to one trailing line break.
C10_LinesSplitAtEveryBreak ==
    [][AddMemberStep =>
        LET rec == generated_lines'[Len(generated_lines')]
            src == call'.source
        IN  /\ generated_lines' = Append(generated_lines, rec)
            /\ \A i \in 1..Len(rec) : \A j \in 1..Len(rec[i]) : rec[i][j] # NL
            /\ (src # << >> /\ find(src) = npos) => rec = <<src>>
            /\ Join(rec) = src \/ Join(rec) \o <<NL>> = src]_vars

====
